---- MODULE Spec2Model ----
(***************************************************************************)
(* A model of bb-csproj-version-checker's orchestration (src/main.rs):    *)
(* enumerate the repositories of a project, skip the ones matching the     *)
(* ignore prefix, list each repository's .csproj files, fetch their        *)
(* contents concurrently behind a join-all barrier, extract the package    *)
(* references of the target package and append them to the report, then    *)
(* render and deliver the report.                                          *)
(*                                                                         *)
(* The Bitbucket server is the environment: every response (a repository   *)
(* list, a file listing, a file's lines, or a failure) is chosen when the  *)
(* request completes; one run in two is against the fixed, healthy server  *)
(* of the end-to-end test.  Strings that the code inspects by character (slugs  *)
(* and the ignore prefix) are sequences of one-character strings; strings  *)
(* it only compares for equality are TLA+ strings.                         *)
(***************************************************************************)
EXTENDS Naturals, Sequences, FiniteSets, TLC

\* ------------------------------------------------------------------ bounds

\* The number of files the server lists over one run, all repositories together.
MaxFiles == 2
\* The number of lines the server returns over one run, all files together.
MaxLines == 2

\* ------------------------------------------------------------- input values

Str_a == <<"a">>
Str_b == <<"b">>
Str_ignore_x == <<"i", "g", "n", "o", "r", "e", "-", "x">>
Str_ignore_ == <<"i", "g", "n", "o", "r", "e", "-">>

\* The project's repositories, in the order the server lists them.
ProjectRepos == <<Str_a, Str_ignore_x, Str_b>>

Paths == {"pkg.csproj", "lib.csproj"}

Packages == {"Foo"}

\* Option<T>: None is the empty sequence, Some(x) the one-element sequence.
None == <<>>
Some(x) == <<x>>

IgnorePrefixes == {None, Some(Str_ignore_), Some(<<>>)}

OutputKinds == {"Console", "Txt", "Md"}

OutputFileNames == {None, Some("out")}

\* A line of a build file: the element it holds, and the values of its Include
\* and Version attributes ("" when the attribute is missing or empty).
LineFoo123 == [element |-> "PackageReference", Include |-> "Foo", Version |-> "1.2.3"]
LineFoo200 == [element |-> "PackageReference", Include |-> "Foo", Version |-> "2.0.0"]
Linefoo123 == [element |-> "PackageReference", Include |-> "foo", Version |-> "1.2.3"]
LineProject == [element |-> "Project", Include |-> "", Version |-> ""]

Lines == {LineFoo123, LineFoo200, Linefoo123, LineProject}

\* The sequences over S of length at most n.
SeqsUpTo(S, n) == UNION {[1..k -> S] : k \in 0..n}

\* The sequences over S of length at most n without a repeated element.
DistinctSeqsUpTo(S, n) ==
    {s \in SeqsUpTo(S, n) : \A i, j \in 1..Len(s) : s[i] = s[j] => i = j}

\* The subsequences of s: its elements at the positions of I, in s's order.
RECURSIVE Pick(_, _)
Pick(s, I) ==
    IF s = <<>> THEN <<>>
    ELSE (IF Len(s) \in I THEN Pick(SubSeq(s, 1, Len(s) - 1), I) \o <<s[Len(s)]>>
          ELSE Pick(SubSeq(s, 1, Len(s) - 1), I))

\* What an enumeration can return: any of the project's repositories, in order.
RepoLists == {Pick(ProjectRepos, I) : I \in SUBSET (1..Len(ProjectRepos))}

\* ---------------------------------------------------------------- state

VARIABLES
    package,             \* args.package
    ignore_repo_prefix,  \* args.ignore_repo_prefix: Option<String>
    output_kind,         \* args.output_kind
    output_file_name,    \* output_file_name after unwrap_or
    pc,                  \* main's position
    project_repos,       \* the enumerated repositories' slugs
    idx,                 \* the for loop's position in project_repos (1-based)
    csproj_files,        \* the current repository's listed paths
    futures,             \* get_file_content_futures: one state per listed path
    completion_order,    \* the indices of futures in the order they completed
    report,              \* report.repo_package_references
    list_requests,       \* every file-listing request issued, in order
    content_requests,    \* every file-content request issued, in order
    in_flight,           \* the requests issued and not yet answered
    server,              \* "fixture": the end-to-end test's server; "any": any answer
    lines_served,        \* the lines returned for the repositories already processed
    failed_requests,     \* the requests the server answered with a failure
    stdout,              \* what println! wrote, in order
    written              \* the files std::fs::write wrote

vars == <<package, ignore_repo_prefix, output_kind, output_file_name, pc,
          project_repos, idx, csproj_files, futures, completion_order, report,
          list_requests, content_requests, in_flight, server, lines_served,
          failed_requests, stdout, written>>

config == <<package, ignore_repo_prefix, output_kind, output_file_name>>

\* ------------------------------------------------------------ pure helpers

\* The arguments of starts_with exchanged: whether the prefix starts with the string.
StartsWithSwapped(s, prefix) ==
    /\ Len(s) <= Len(prefix)
    /\ SubSeq(prefix, 1, Len(s)) = s

\* The empty prefix taken to match nothing.
StartsWithNonEmpty(s, prefix) ==
    /\ prefix # <<>>
    /\ Len(prefix) <= Len(s)
    /\ SubSeq(s, 1, Len(prefix)) = prefix

\* str::starts_with
StartsWith(s, prefix) ==
    /\ Len(prefix) <= Len(s)
    /\ SubSeq(s, 1, Len(prefix)) = prefix

\* Option::unwrap_or
UnwrapOr(opt, default) == IF opt = None THEN default ELSE opt[1]

\* The concatenation of a sequence of sequences, in order.
RECURSIVE Flatten(_)
Flatten(ss) == IF ss = <<>> THEN <<>> ELSE Head(ss) \o Flatten(Tail(ss))

\* Iterator::map over a sequence.
MapSeq(s, F(_)) == [i \in 1..Len(s) |-> F(s[i])]

\* PackageReference::try_from(line): Ok(reference) for a declaration that names
\* a package and a version, Err otherwise.
TryFrom(line) ==
    IF line.element = "PackageReference" /\ line.Include # "" /\ line.Version # ""
    THEN [ok |-> TRUE, package_name |-> line.Include, version |-> line.Version]
    ELSE [ok |-> FALSE, package_name |-> "", version |-> ""]

\* RepoPackageReference::new
NewRepoPackageReference(slug, file_name, package_reference) ==
    [repo_slug |-> slug, file_name |-> file_name,
     package_name |-> package_reference.package_name,
     version |-> package_reference.version]

\* A rendering of the report: the format it is laid out in and one row per
\* record, in the report's order.
Render(format, r) ==
    [format |-> format,
     rows |-> [i \in 1..Len(r) |->
         <<r[i].repo_slug, r[i].file_name, r[i].package_name, r[i].version>>]]

\* The format of PackageVersionReport's to_string. It takes no argument, so it
\* lays the report out in one format for every caller; the model takes it to be
\* the console's.
DisplayFormat == "plain-console"

\* PackageVersionReport's to_string, as lines 121, 123 and 126 call it.
ReportToString(r) == Render(DisplayFormat, r)

\* ------------------------------------------------- the orchestrator's steps

\* The skip taken only for a slug equal to the prefix.
IsIgnoredExact(slug, prefix) ==
    /\ prefix # None
    /\ slug = prefix[1]

\* Lines 64-69: whether the loop skips the repository.
IsIgnored(slug, prefix) ==
    /\ prefix # None
    /\ StartsWith(slug, prefix[1])

\* str::to_lowercase on the package names of the model.
Lower(str) == IF str = "Foo" THEN "foo" ELSE str

\* The filter comparing the names without regard to case.
PackageMatchesIgnoreCase(package_reference, target) ==
    Lower(package_reference.package_name) = Lower(target)

\* Line 100: the filter on the package name.
PackageMatches(package_reference, target) ==
    package_reference.package_name = target

\* The longest prefix of parse results that are all Ok.
RECURSIVE TakeWhileOk(_)
TakeWhileOk(s) ==
    IF s = <<>> \/ ~Head(s).ok THEN <<>>
    ELSE <<Head(s)>> \o TakeWhileOk(Tail(s))

\* The extraction stopping at the first line that is no declaration (map_while
\* in place of filter_map).
FileReferencesMapWhile(slug, file, target) ==
    LET parsed == MapSeq(file.content, TryFrom)
        recognised == TakeWhileOk(parsed)
        matching == SelectSeq(recognised, LAMBDA r : PackageMatches(r, target))
    IN  MapSeq(matching, LAMBDA r : NewRepoPackageReference(slug, file.name, r))

\* Lines 95-108: the records of one fetched file, in line order.
FileReferences(slug, file, target) ==
    LET parsed == MapSeq(file.content, TryFrom)
        recognised == SelectSeq(parsed, LAMBDA r : r.ok)
        matching == SelectSeq(recognised, LAMBDA r : PackageMatches(r, target))
    IN  MapSeq(matching, LAMBDA r : NewRepoPackageReference(slug, file.name, r))

\* The results in the order the futures completed (FuturesUnordered).
JoinAllCompletionOrder(files, futs, order) ==
    [k \in 1..Len(order) |->
        [ok |-> futs[order[k]].st = "ok", name |-> files[order[k]],
         content |-> futs[order[k]].content]]

\* The contents that arrived paired with the leading file names (the names
\* zipped after the failures were filtered out).
JoinAllZipAfterFilter(files, futs, order) ==
    LET oks == SelectSeq([i \in 1..Len(files) |-> i], LAMBDA i : futs[i].st = "ok")
    IN  [k \in 1..Len(files) |->
            IF k <= Len(oks)
            THEN [ok |-> TRUE, name |-> files[k], content |-> futs[oks[k]].content]
            ELSE [ok |-> FALSE, name |-> files[k], content |-> <<>>]]

\* Lines 75-87: join_all's output, one Result per future in the order of the
\* input iterator, whatever the order of completion.
JoinAll(files, futs, order) ==
    [i \in 1..Len(files) |->
        [ok |-> futs[i].st = "ok", name |-> files[i], content |-> futs[i].content]]

\* One failure discarding every file of the repository (the results collected
\* into a single Result, defaulted when it is an Err).
CsprojFilesWithContentAllOrNothing(files, futs, order) ==
    LET results == JoinAll(files, futs, order)
    IN  IF \E i \in 1..Len(results) : ~results[i].ok THEN <<>>
        ELSE MapSeq(results, LAMBDA r : [name |-> r.name, content |-> r.content])

\* Lines 85-90: the RepoFiles of the fetches that succeeded (filter_map ok).
CsprojFilesWithContent(files, futs, order) ==
    LET oks == SelectSeq(JoinAll(files, futs, order), LAMBDA r : r.ok)
    IN  MapSeq(oks, LAMBDA r : [name |-> r.name, content |-> r.content])

\* s without the later occurrences of its elements (Vec::dedup on equal records).
RECURSIVE Dedup(_)
Dedup(s) ==
    IF s = <<>> THEN <<>>
    ELSE LET front == Dedup(SubSeq(s, 1, Len(s) - 1))
         IN  IF \E i \in 1..Len(front) : front[i] = s[Len(s)] THEN front
             ELSE Append(front, s[Len(s)])

\* The repository's records with the duplicates removed.
RepoPackageReferencesDedup(slug, files_with_content, target) ==
    Dedup(Flatten(MapSeq(files_with_content,
                         LAMBDA file : FileReferences(slug, file, target))))

\* Lines 92-111: the records of one repository, file by file.
RepoPackageReferences(slug, files_with_content, target) ==
    Flatten(MapSeq(files_with_content,
                   LAMBDA file : FileReferences(slug, file, target)))

\* The futures polled one at a time, the next only when none is pending (the
\* requests awaited in a loop).
PolledOneAtATime(futs) ==
    {i \in 1..Len(futs) :
        /\ futs[i].st = "created"
        /\ \A j \in 1..Len(futs) : futs[j].st # "pending"
        /\ \A j \in 1..(i - 1) : futs[j].st # "created"}

\* A failed future polled again, its request reissued.
PolledWithRetry(futs) ==
    {i \in 1..Len(futs) : futs[i].st \in {"created", "err"}}

\* Lines 75-87: the futures join_all polls for the first time: all of them at
\* once, none waiting for another to complete.
Polled(futs) ==
    {i \in 1..Len(futs) : futs[i].st = "created"}

\* The vector assigned the slice instead of extended with it.
ExtendFromSliceReplacing(vec, slice) == slice

\* Lines 113-115: Vec::extend_from_slice, the slice's elements pushed at the end.
ExtendFromSlice(vec, slice) == vec \o slice

\* The barrier released by the first future to finish (a race, not a join).
JoinAnyReady(futs) ==
    \/ futs = <<>>
    \/ \E i \in 1..Len(futs) : futs[i].st \in {"ok", "err"}

\* The barrier released only when every future has succeeded.
JoinAllOkReady(futs) ==
    \A i \in 1..Len(futs) : futs[i].st = "ok"

\* The barrier also released by the first future to fail (try_join_all).
JoinAllOrFirstErrReady(futs) ==
    \/ \A i \in 1..Len(futs) : futs[i].st \in {"ok", "err"}
    \/ \E i \in 1..Len(futs) : futs[i].st = "err"

\* Line 86: the join-all barrier is released when every future has finished.
JoinAllReady(futs) ==
    \A i \in 1..Len(futs) : futs[i].st \in {"ok", "err"}

\* The error dropped and main going on as after an Ok.
QuestionMarkSwallowed(ok, continuation) == continuation

\* Lines 61, 73, 123, 126: the `?` operator: main goes on with an Ok and returns
\* the error of an Err.
QuestionMark(ok, continuation) ==
    IF ok THEN continuation ELSE "failed"

\* The Md arm writing the .txt file (the Txt arm copied and not edited).
OutputTargetTxtOnly(kind, file_name) ==
    CASE kind = "Console" -> None
      [] kind = "Txt" -> Some(<<file_name, ".txt">>)
      [] kind = "Md" -> Some(<<file_name, ".txt">>)

\* Lines 120-128: the file the report is written to, None for the console.
OutputTarget(kind, file_name) ==
    CASE kind = "Console" -> None
      [] kind = "Txt" -> Some(<<file_name, ".txt">>)
      [] kind = "Md" -> Some(<<file_name, ".md">>)

\* ------------------------------------------------------ the server's budget

RECURSIVE Sum(_)
Sum(ns) == IF ns = <<>> THEN 0 ELSE Head(ns) + Sum(Tail(ns))

SumLen(ss) == Sum(MapSeq(ss, Len))

\* The files the server has listed so far in this run.
FilesListed ==
    Len(content_requests)
    + Cardinality({i \in 1..Len(futures) : futures[i].st = "created"})

\* The lines the server has returned so far in this run.
LinesServed ==
    lines_served + SumLen(MapSeq(futures, LAMBDA f : f.content))

\* The end-to-end test's project: a holds pkg.csproj with one declaration of Foo,
\* ignore-x holds a file too, b holds no build file.
FixtureFiles(slug) ==
    CASE slug = Str_a -> <<"pkg.csproj">>
      [] slug = Str_ignore_x -> <<"lib.csproj">>
      [] OTHER -> <<>>

FixtureContent(slug, path) ==
    IF slug = Str_a /\ path = "pkg.csproj" THEN <<LineFoo123>> ELSE <<LineFoo200>>

\* What the server can answer to each request.
RepoAnswers ==
    IF server = "fixture" THEN {ProjectRepos} ELSE RepoLists

FileAnswers(slug) ==
    IF server = "fixture" THEN {FixtureFiles(slug)}
    ELSE {files \in DistinctSeqsUpTo(Paths, MaxFiles) :
             FilesListed + Len(files) <= MaxFiles}

ContentAnswers(slug, path) ==
    IF server = "fixture" THEN {FixtureContent(slug, path)}
    ELSE {content \in SeqsUpTo(Lines, MaxLines) :
             LinesServed + Len(content) <= MaxLines}

\* The fixture answers every request; any other server may fail one.
MayFail == server = "any"

\* ----------------------------------------------------------------- Init

Init ==
    /\ package \in Packages
    /\ ignore_repo_prefix \in IgnorePrefixes
    /\ output_kind \in OutputKinds
    /\ \E name \in OutputFileNames :
          output_file_name = UnwrapOr(name, "package-version-report")
    /\ pc = "enumerate"
    /\ project_repos = <<>>
    /\ idx = 1
    /\ csproj_files = <<>>
    /\ futures = <<>>
    /\ completion_order = <<>>
    /\ report = <<>>
    /\ list_requests = <<>>
    /\ content_requests = <<>>
    /\ in_flight = {}
    /\ server \in {"any", "fixture"}
    /\ lines_served = 0
    /\ failed_requests = {}
    /\ stdout = <<>>
    /\ written = {}

\* ---------------------------------------------------------------- actions

\* Line 61: the request get_project_repos sends.
EnumerateRequest == [kind |-> "enumerate", slug |-> <<>>, arg |-> ""]

\* The listing asked for without its filter (None in place of Some(".csproj")).
ListRequestUnfiltered(slug) == [kind |-> "list", slug |-> slug, arg |-> ""]

\* Lines 71-72: the request get_paths_of_files_in_repo sends, with its filter.
ListRequest(slug) == [kind |-> "list", slug |-> slug, arg |-> ".csproj"]

\* Lines 76-77: the request get_repo_file_content sends for listed path i.
RequestOf(i) ==
    [kind |-> "content", slug |-> project_repos[idx], arg |-> csproj_files[i]]

\* Line 61: get_project_repos succeeds.
EnumerateOk ==
    /\ pc = "enumerate"
    /\ \E repos \in RepoAnswers :
          project_repos' = repos
    /\ idx' = 1
    /\ pc' = QuestionMark(TRUE, "loop")
    /\ UNCHANGED <<config, csproj_files, futures, completion_order, report,
                   list_requests, content_requests, in_flight, server, lines_served, failed_requests, stdout,
                   written>>

\* Line 61: get_project_repos fails and `?` returns the error from main.
EnumerateErr ==
    /\ pc = "enumerate"
    /\ MayFail
    /\ failed_requests' = failed_requests \cup {EnumerateRequest}
    /\ pc' = QuestionMark(FALSE, "loop")
    /\ UNCHANGED <<config, project_repos, idx, csproj_files, futures,
                   completion_order, report, list_requests, content_requests,
                   in_flight, server, lines_served, stdout, written>>

\* Lines 63-69: the loop reaches a repository that the prefix excludes.
SkipIgnored ==
    /\ pc = "loop"
    /\ idx <= Len(project_repos)
    /\ IsIgnored(project_repos[idx], ignore_repo_prefix)
    /\ stdout' = Append(stdout, <<"Ignored repo", project_repos[idx]>>)
    /\ idx' = idx + 1
    /\ UNCHANGED <<config, pc, project_repos, csproj_files, futures,
                   completion_order, report, list_requests, content_requests,
                   in_flight, server, lines_served, failed_requests, written>>

\* Lines 71-73: the listing request of the current repository is issued.
IssueListFiles ==
    /\ pc = "loop"
    /\ idx <= Len(project_repos)
    /\ ~IsIgnored(project_repos[idx], ignore_repo_prefix)
    /\ list_requests' = Append(list_requests, ListRequest(project_repos[idx]))
    /\ in_flight' = in_flight \cup {ListRequest(project_repos[idx])}
    /\ pc' = "listing"
    /\ UNCHANGED <<config, project_repos, idx, csproj_files, futures,
                   completion_order, report, content_requests, server, lines_served, failed_requests, stdout,
                   written>>

\* Lines 71-83: the listing succeeds; one future per path is created (lazily:
\* none has issued its request yet).
ListFilesOk ==
    /\ pc = "listing"
    /\ \E files \in FileAnswers(project_repos[idx]) :
          /\ csproj_files' = files
          /\ futures' = [i \in 1..Len(files) |-> [st |-> "created", content |-> <<>>]]
    /\ completion_order' = <<>>
    /\ in_flight' = in_flight \ {ListRequest(project_repos[idx])}
    /\ pc' = QuestionMark(TRUE, "join")
    /\ UNCHANGED <<config, project_repos, idx, report, list_requests,
                   content_requests, server, lines_served, failed_requests, stdout, written>>

\* Lines 71-73: the listing fails and `?` returns the error from main.
ListFilesErr ==
    /\ pc = "listing"
    /\ MayFail
    /\ in_flight' = in_flight \ {ListRequest(project_repos[idx])}
    /\ failed_requests' = failed_requests \cup {ListRequest(project_repos[idx])}
    /\ pc' = QuestionMark(FALSE, "join")
    /\ UNCHANGED <<config, project_repos, idx, csproj_files, futures,
                   completion_order, report, list_requests, content_requests,
                   server, lines_served, stdout, written>>

\* Lines 85-87: join_all's first poll polls every future, in the order of the
\* listing, and a future issues its request when it is first polled.
IssueFetches ==
    /\ pc = "join"
    /\ Polled(futures) # {}
    /\ LET reqs == MapSeq(SelectSeq([i \in 1..Len(futures) |-> i],
                                    LAMBDA i : i \in Polled(futures)),
                          LAMBDA i : RequestOf(i))
       IN  /\ content_requests' = content_requests \o reqs
           /\ in_flight' = in_flight \cup {reqs[k] : k \in 1..Len(reqs)}
    /\ futures' = [i \in 1..Len(futures) |->
                      IF i \in Polled(futures)
                      THEN [futures[i] EXCEPT !.st = "pending"]
                      ELSE futures[i]]
    /\ UNCHANGED <<config, pc, project_repos, idx, csproj_files,
                   completion_order, report, list_requests, server, lines_served, failed_requests, stdout,
                   written>>

\* Lines 76-82: a content request succeeds with the file's lines.
CompleteFetchOk(i) ==
    /\ pc = "join"
    /\ futures[i].st = "pending"
    /\ \E content \in ContentAnswers(project_repos[idx], csproj_files[i]) :
          /\ futures' = [futures EXCEPT ![i] = [st |-> "ok", content |-> content]]
    /\ completion_order' = Append(completion_order, i)
    /\ in_flight' = in_flight \ {RequestOf(i)}
    /\ UNCHANGED <<config, pc, project_repos, idx, csproj_files, report,
                   list_requests, content_requests, server, lines_served, failed_requests, stdout, written>>

\* Lines 76-78: a content request fails.
CompleteFetchErr(i) ==
    /\ pc = "join"
    /\ futures[i].st = "pending"
    /\ MayFail
    /\ futures' = [futures EXCEPT ![i].st = "err"]
    /\ completion_order' = Append(completion_order, i)
    /\ in_flight' = in_flight \ {RequestOf(i)}
    /\ failed_requests' = failed_requests \cup {RequestOf(i)}
    /\ UNCHANGED <<config, pc, project_repos, idx, csproj_files, report,
                   list_requests, content_requests, server, lines_served,
                   stdout, written>>

\* Lines 85-117: the barrier is released; the failed fetches are dropped, the
\* lines of the others are extracted and filtered, and the repository's records
\* are appended to the report.
Aggregate ==
    /\ pc = "join"
    /\ JoinAllReady(futures)
    /\ LET slug == project_repos[idx]
           csproj_files_with_content ==
               CsprojFilesWithContent(csproj_files, futures, completion_order)
           repo_package_references ==
               RepoPackageReferences(slug, csproj_files_with_content, package)
       IN  /\ report' = ExtendFromSlice(report, repo_package_references)
           /\ stdout' = Append(stdout, <<"Done processing files from repo", slug>>)
           /\ lines_served' = LinesServed
    /\ csproj_files' = <<>>
    /\ futures' = <<>>
    /\ idx' = idx + 1
    /\ pc' = "loop"
    /\ UNCHANGED <<config, project_repos, completion_order, list_requests,
                   content_requests, in_flight, server, failed_requests, written>>

\* Line 121: the loop is over and the report is printed.
DeliverConsole ==
    /\ pc = "loop"
    /\ idx > Len(project_repos)
    /\ OutputTarget(output_kind, output_file_name) = None
    /\ stdout' = Append(stdout, <<"report", ReportToString(report)>>)
    /\ pc' = "done"
    /\ UNCHANGED <<config, project_repos, idx, csproj_files, futures,
                   completion_order, report, list_requests, content_requests,
                   in_flight, server, lines_served, failed_requests, written>>

\* Lines 122-127: the loop is over and the report is written to its file.
DeliverFileOk ==
    /\ pc = "loop"
    /\ idx > Len(project_repos)
    /\ OutputTarget(output_kind, output_file_name) # None
    /\ written' = written \cup
          {[name |-> OutputTarget(output_kind, output_file_name)[1],
            text |-> ReportToString(report)]}
    /\ pc' = QuestionMark(TRUE, "done")
    /\ UNCHANGED <<config, project_repos, idx, csproj_files, futures,
                   completion_order, report, list_requests, content_requests,
                   in_flight, server, lines_served, failed_requests, stdout>>

\* Lines 122-127: std::fs::write fails and `?` returns the error from main.
DeliverFileErr ==
    /\ pc = "loop"
    /\ idx > Len(project_repos)
    /\ OutputTarget(output_kind, output_file_name) # None
    /\ pc' = QuestionMark(FALSE, "done")
    /\ UNCHANGED <<config, project_repos, idx, csproj_files, futures,
                   completion_order, report, list_requests, content_requests,
                   in_flight, server, lines_served, failed_requests, stdout, written>>

Next ==
    \/ EnumerateOk
    \/ EnumerateErr
    \/ SkipIgnored
    \/ IssueListFiles
    \/ ListFilesOk
    \/ ListFilesErr
    \/ IssueFetches
    \/ \E i \in 1..Len(futures) : CompleteFetchOk(i)
    \/ \E i \in 1..Len(futures) : CompleteFetchErr(i)
    \/ Aggregate
    \/ DeliverConsole
    \/ DeliverFileOk
    \/ DeliverFileErr

Spec == Init /\ [][Next]_vars

\* The run under the assumption that every request issued is answered, with
\* success or failure, and that main, the only task, takes its own steps: the
\* run does not stand still while a step is possible.
FairSpec == Init /\ [][Next]_vars /\ WF_vars(Next)

\* =================================================================== claims

\* ------------------------------------------------- what the claims speak of

\* p is a prefix of s: s is p followed by something.
HasPrefix(s, p) == \E k \in 0..Len(s) : SubSeq(s, 1, k) = p

\* The run has an ignore prefix and the slug starts with it.
SkippedByPrefix(slug) ==
    /\ Len(ignore_repo_prefix) = 1
    /\ HasPrefix(slug, ignore_repo_prefix[1])

\* The elements of a sequence.
Range(s) == {s[i] : i \in 1..Len(s)}

\* The position of x in a sequence without repetition.
Pos(s, x) == CHOOSE i \in 1..Len(s) : s[i] = x

\* The line declares the target package with a version.
Declares(line, target) ==
    /\ line.element = "PackageReference"
    /\ line.Include = target
    /\ line.Version # ""

\* The record the report is to hold for a declaring line.
RecordOf(slug, path, line) ==
    [repo_slug |-> slug, file_name |-> path,
     package_name |-> line.Include, version |-> line.Version]

\* One record per declaring line of one file, in line order.
RECURSIVE LineRecords(_, _, _, _)
LineRecords(slug, path, content, target) ==
    IF content = <<>> THEN <<>>
    ELSE (IF Declares(Head(content), target)
          THEN <<RecordOf(slug, path, Head(content))>> ELSE <<>>)
         \o LineRecords(slug, path, Tail(content), target)

\* The files fetched and processed one after the other, from the k-th on, in
\* listing order, the failed ones left out.
RECURSIVE SequentialRecords(_, _, _, _, _)
SequentialRecords(slug, files, futs, target, k) ==
    IF k > Len(files) THEN <<>>
    ELSE (IF futs[k].st = "ok"
          THEN LineRecords(slug, files[k], futs[k].content, target) ELSE <<>>)
         \o SequentialRecords(slug, files, futs, target, k + 1)

\* A step that ends the processing of the current repository.
AggregateStep == pc = "join" /\ pc' = "loop"

\* The records a step appends to the report.
Appended == SubSeq(report', Len(report) + 1, Len(report'))

\* The report has been printed or written.
ReportDelivered ==
    \/ written # {}
    \/ \E i \in 1..Len(stdout) : stdout[i][1] = "report"

\* --------------------------------------------------------------------- C1

C1_Untouched ==
    \A slug \in Range(project_repos) :
        SkippedByPrefix(slug) =>
            /\ \A i \in 1..Len(report) : report[i].repo_slug # slug
            /\ \A i \in 1..Len(list_requests) : list_requests[i].slug # slug
            /\ \A i \in 1..Len(content_requests) : content_requests[i].slug # slug
            /\ \A r \in in_flight : r.slug # slug

C1_Continues ==
    (/\ pc = "loop"
     /\ idx <= Len(project_repos)
     /\ SkippedByPrefix(project_repos[idx]))
    => (pc' = "loop" /\ idx' = idx + 1 /\ report' = report)

\* C1: a repository whose slug starts with the configured ignore prefix has no
\* record in the report and no listing or content request is ever issued for
\* it; the step taken at such a repository moves on to the next one.
C1_IgnoredRepoSkipped == []C1_Untouched /\ [][C1_Continues]_vars

\* An ignored repository was passed and a later repository contributed a record.
C1_Witness ==
    /\ pc = "done"
    /\ ignore_repo_prefix = Some(Str_ignore_)
    /\ server = "any"
    /\ project_repos = ProjectRepos
    /\ \E i \in 1..Len(report) : report[i].repo_slug = Str_b

\* --------------------------------------------------------------------- C2

C2_FailureNotFatal ==
    (\E r \in failed_requests' \ failed_requests : r.kind = "content")
    => pc' = "join"

C2_OthersProcessed ==
    AggregateStep =>
        /\ idx' = idx + 1
        /\ \A i \in 1..Len(csproj_files) :
              LET ofFile == SelectSeq(Appended,
                      LAMBDA rec : rec.file_name = csproj_files[i])
              IN  /\ futures[i].st = "err" => ofFile = <<>>
                  /\ futures[i].st = "ok" =>
                        ofFile = LineRecords(project_repos[idx], csproj_files[i],
                                             futures[i].content, package)

C2_OnlyFatalFailuresAbort ==
    (pc # "failed" /\ pc' = "failed") =>
        \/ \E r \in failed_requests' \ failed_requests : r.kind \in {"enumerate", "list"}
        \/ (pc = "loop" /\ idx > Len(project_repos))

\* C2: a failed content fetch aborts neither its repository nor the run: the
\* failed file contributes nothing, every other file of the repository
\* contributes its records, the loop goes on to the next repository, and the
\* run is only ever aborted by an enumeration, listing or write failure.
C2_FetchFailureNonFatal ==
    [][C2_FailureNotFatal /\ C2_OthersProcessed /\ C2_OnlyFatalFailuresAbort]_vars

\* A fetch failed, another file of the same repository contributed a record, a
\* later repository was listed and the run reached its end.
C2_Witness ==
    /\ pc = "done"
    /\ \E r \in failed_requests :
          /\ r.kind = "content"
          /\ \E i \in 1..Len(report) :
                report[i].repo_slug = r.slug /\ report[i].file_name # r.arg
          /\ \E j \in 1..Len(list_requests) :
                /\ list_requests[j].slug # r.slug
                /\ Pos(project_repos, list_requests[j].slug) > Pos(project_repos, r.slug)

\* --------------------------------------------------------------------- C3

\* C3: once the enumeration or a listing has failed, the run has ended with the
\* error and no report has been printed or written, whatever the report held.
C3_FatalFailureNoReport ==
    (\E r \in failed_requests : r.kind \in {"enumerate", "list"})
    => (pc = "failed" /\ ~ReportDelivered /\ in_flight = {})

\* A listing failed after earlier repositories had contributed records.
C3_Witness ==
    /\ pc = "failed"
    /\ report # <<>>
    /\ \E r \in failed_requests : r.kind = "list"

\* --------------------------------------------------------------------- C4

\* The records are grouped by repository in enumeration order and, within a
\* repository, by file in the order the files were listed and requested.
C4_Ordered ==
    \A i, j \in 1..Len(report) :
        i < j =>
            /\ Pos(project_repos, report[i].repo_slug)
                  <= Pos(project_repos, report[j].repo_slug)
            /\ report[i].repo_slug = report[j].repo_slug =>
                  Pos(content_requests,
                      [kind |-> "content", slug |-> report[i].repo_slug,
                       arg |-> report[i].file_name])
                  <= Pos(content_requests,
                         [kind |-> "content", slug |-> report[j].repo_slug,
                          arg |-> report[j].file_name])

C4_AppendsInOrder ==
    IF AggregateStep
    THEN report' = report \o SequentialRecords(project_repos[idx], csproj_files,
                                               futures, package, 1)
    ELSE report' = report

\* C4: the report is ordered by repository enumeration order, then by file
\* listing order, then by line order, whatever the order in which the fetches
\* completed: a repository's records are appended file by file in listing order
\* and line by line, and no other step touches the report.
C4_ReportInSourceOrder == []C4_Ordered /\ [][C4_AppendsInOrder]_vars

\* Two files of one repository completed in the reverse of their listing order
\* and each contributed a record.
C4_Witness ==
    /\ pc = "loop"
    /\ completion_order = <<2, 1>>
    /\ Len(report) = 2
    /\ report[1].file_name # report[2].file_name
    /\ report[1].repo_slug = report[2].repo_slug

\* --------------------------------------------------------------------- C5

\* s without its i-th element.
RemoveAt(s, i) == SubSeq(s, 1, i - 1) \o SubSeq(s, i + 1, Len(s))

\* Every file of the list fetched (successfully) and processed, one at a time.
RECURSIVE ProcessSequentially(_, _, _, _)
ProcessSequentially(slug, files, contents, target) ==
    IF files = <<>> THEN <<>>
    ELSE LineRecords(slug, Head(files), Head(contents), target)
         \o ProcessSequentially(slug, Tail(files), Tail(contents), target)

C5_OneFailure ==
    \A f \in 1..Len(futures) :
        (/\ AggregateStep
         /\ futures[f].st = "err"
         /\ \A i \in 1..Len(futures) : i # f => futures[i].st = "ok")
        => Appended = ProcessSequentially(project_repos[idx],
                          RemoveAt(csproj_files, f),
                          RemoveAt([i \in 1..Len(futures) |-> futures[i].content], f),
                          package)

\* C5: when exactly one of a repository's K concurrent fetches fails, the
\* records the repository contributes are those of fetching and processing the
\* K-1 other files one after the other, whichever file failed and in whatever
\* order the fetches completed.
C5_OneFailureEqualsSequential == [][C5_OneFailure]_vars

\* Of two files, the first listed failed, after the second had completed, and
\* the second contributed a record.
C5_Witness ==
    /\ pc = "loop"
    /\ completion_order = <<2, 1>>
    /\ Cardinality(failed_requests) = 1
    /\ Len(content_requests) = 2
    /\ failed_requests = {content_requests[1]}
    /\ Len(report) = 1
    /\ report[1].file_name = content_requests[2].arg

\* --------------------------------------------------------------------- C6

\* C6: every record of the report names exactly the target package.
C6_OnlyTargetPackage ==
    \A i \in 1..Len(report) : report[i].package_name = package

\* Two declarations of the target package with different versions are in the
\* report.
C6_Witness ==
    /\ Len(report) = 2
    /\ report[1].version # report[2].version
    /\ lines_served = 2

\* --------------------------------------------------------------------- C7

\* The run of the end-to-end test: the fixture server, the prefix "ignore-" and
\* the target package Foo.
EndToEndRun ==
    /\ server = "fixture"
    /\ ignore_repo_prefix = Some(Str_ignore_)
    /\ package = "Foo"

\* C7: in the end-to-end run (repositories a, ignore-x, b; a holds pkg.csproj
\* declaring Foo 1.2.3; b holds no build file) ignore-x is never listed and never
\* fetched, and the final report is the one record (a, pkg.csproj, Foo, 1.2.3).
C7_EndToEnd ==
    EndToEndRun =>
        /\ pc # "enumerate" => project_repos = <<Str_a, Str_ignore_x, Str_b>>
        /\ \A i \in 1..Len(list_requests) : list_requests[i].slug # Str_ignore_x
        /\ \A i \in 1..Len(content_requests) : content_requests[i].slug # Str_ignore_x
        /\ pc = "done" =>
              report = <<[repo_slug |-> Str_a, file_name |-> "pkg.csproj",
                          package_name |-> "Foo", version |-> "1.2.3"]>>

\* The end-to-end run has delivered its report after listing a and b.
C7_Witness ==
    /\ EndToEndRun
    /\ pc = "done"
    /\ Len(list_requests) = 2
    /\ Len(content_requests) = 1
    /\ ReportDelivered

\* --------------------------------------------------------------------- C8

\* The content without the lines that do not declare the target package.
DeclaringLines(content, target) ==
    SelectSeq(content, LAMBDA line : Declares(line, target))

\* The futures with every fetched content reduced to its declaring lines.
Stripped(futs, target) ==
    [i \in 1..Len(futs) |->
        [futs[i] EXCEPT !.content = DeclaringLines(futs[i].content, target)]]

C8_SilentNonMatches ==
    AggregateStep =>
        /\ pc' # "failed"
        /\ Appended = RepoPackageReferences(project_repos[idx],
                          CsprojFilesWithContent(csproj_files,
                              Stripped(futures, package), completion_order),
                          package)
        /\ \A i \in 1..Len(Appended) :
              Appended[i].package_name # "" /\ Appended[i].version # ""
        /\ (\A i \in 1..Len(futures) :
               DeclaringLines(futures[i].content, package) = <<>>)
           => Appended = <<>>

\* C8: a line that is no declaration, and a declaration of another package,
\* are not errors: the run goes on, such a line yields no record (none with an
\* empty name or version either), and the records of a file are those of the
\* same file without these lines.
C8_NonMatchingLinesAreSilent == [][C8_SilentNonMatches]_vars

\* Of the two lines served, one was dropped and the other is in the report,
\* and the run went on to deliver it.
C8_Witness ==
    /\ pc = "done"
    /\ server = "any"
    /\ lines_served = 2
    /\ Len(report) = 1
    /\ Len(content_requests) = 1
    /\ failed_requests = {}

\* --------------------------------------------------------------------- C9

\* How many elements of s satisfy Test.
Count(s, Test(_)) == Len(SelectSeq(s, Test))

C9_OnePerLine ==
    AggregateStep =>
        \A i \in 1..Len(csproj_files) : \A line \in Lines :
            Count(Appended,
                  LAMBDA rec : rec = RecordOf(project_repos[idx], csproj_files[i], line))
            = IF futures[i].st = "ok" /\ Declares(line, package)
              THEN Count(futures[i].content, LAMBDA l : l = line)
              ELSE 0

\* C9: a repository contributes exactly one record per line that declares the
\* target package in a fetched file, so equal lines yield equal records, as many
\* as there are lines; records are never merged.
C9_NoDeduplication == [][C9_OnePerLine]_vars

\* One file with the same declaration on two lines gave two equal records.
C9_Witness ==
    /\ Len(report) = 2
    /\ report[1] = report[2]
    /\ Len(content_requests) = 1

\* -------------------------------------------------------------------- C10

\* The positions in the enumeration of the repositories a log's requests are for.
RepoPositions(log) == [i \in 1..Len(log) |-> Pos(project_repos, log[i].slug)]

\* C10: every request in flight is for the repository the loop is at; the
\* listing requests are issued in enumeration order, one per repository; every
\* content request is for a repository already listed and not yet left; so
\* requests of two repositories are never in flight together, and none is
\* issued for a repository before the one before it is done.
C10_OneRepositoryAtATime ==
    /\ \A r \in in_flight :
          /\ pc \in {"listing", "join"}
          /\ r.slug = project_repos[idx]
    /\ \A i, j \in 1..Len(list_requests) :
          i < j => RepoPositions(list_requests)[i] < RepoPositions(list_requests)[j]
    /\ \A i, j \in 1..Len(content_requests) :
          i < j => RepoPositions(content_requests)[i] <= RepoPositions(content_requests)[j]
    /\ \A i \in 1..Len(list_requests) : RepoPositions(list_requests)[i] <= idx
    /\ \A i \in 1..Len(content_requests) :
          /\ RepoPositions(content_requests)[i] <= idx
          /\ content_requests[i] \in in_flight =>
                RepoPositions(content_requests)[i] = idx
    /\ pc \in {"loop", "done", "failed"} => in_flight = {}

\* The second repository's fetches are in flight after the first repository's
\* file was fetched.
C10_Witness ==
    /\ pc = "join"
    /\ Len(list_requests) = 2
    /\ Len(content_requests) = 2
    /\ content_requests[1].slug # content_requests[2].slug
    /\ in_flight = {content_requests[2]}

\* -------------------------------------------------------------------- C11

C11_Barrier ==
    (AggregateStep \/ report' # report) =>
        /\ \A i \in 1..Len(futures) : futures[i].st \in {"ok", "err"}
        /\ Len(completion_order) = Len(csproj_files)
        /\ in_flight = {}
        /\ in_flight' = {}

\* C11: the extraction and the append of a repository's records happen only
\* once every one of its fetches has finished, with success or failure: the
\* report never changes while a request is in flight, and a fetch finishing or
\* failing first does not release the barrier.
C11_JoinAllBarrier == [][C11_Barrier]_vars

\* The first listed file failed first, the second completed after it, and the
\* second file's record reached the report.
C11_Witness ==
    /\ pc = "loop"
    /\ completion_order = <<1, 2>>
    /\ Len(content_requests) = 2
    /\ failed_requests = {content_requests[1]}
    /\ Len(report) = 1
    /\ report[1].file_name = content_requests[2].arg

\* -------------------------------------------------------------------- C12

\* No request waits for another: while one file's request is still to be
\* issued, no other file's request has been issued, let alone answered.
C12_NoneWaits ==
    \A i, j \in 1..Len(futures) :
        futures[i].st = "created" => futures[j].st = "created"

C12_AllAtOnce ==
    content_requests' # content_requests =>
        /\ Len(content_requests') = Len(content_requests) + Len(csproj_files)
        /\ \A i \in 1..Len(csproj_files) :
              /\ futures'[i].st = "pending"
              /\ [kind |-> "content", slug |-> project_repos[idx],
                  arg |-> csproj_files[i]] \in in_flight'
        /\ Cardinality(in_flight') = Len(csproj_files)

\* C12: the content requests of a repository are all issued together, none
\* waiting for another to complete, so that right after they are issued all K
\* of them are in flight at once.
C12_UnboundedFanOut == []C12_NoneWaits /\ [][C12_AllAtOnce]_vars

\* Both requests of a repository with two files are in flight together.
C12_Witness ==
    /\ pc = "join"
    /\ Len(csproj_files) = 2
    /\ Cardinality(in_flight) = 2
    /\ \A i \in 1..2 : futures[i].st = "pending"

\* -------------------------------------------------------------------- C13

\* s is an initial part of t.
IsPrefixOf(s, t) ==
    /\ Len(s) <= Len(t)
    /\ \A i \in 1..Len(s) : t[i] = s[i]

\* C13: the report is append-only: at every step the report before the step is
\* an initial part of the report after it, so no record is removed, moved or
\* edited.
C13_AppendOnly == [][IsPrefixOf(report, report')]_vars

\* The report grew in two steps: it holds a record of each of two repositories.
C13_Witness ==
    /\ Len(report) = 2
    /\ report[1].repo_slug # report[2].repo_slug
    /\ pc = "done"

\* -------------------------------------------------------------------- C14

\* The texts printed as the report.
PrintedReports ==
    SelectSeq(stdout, LAMBDA entry : entry[1] = "report")

\* The format each output kind asks for.
RequestedFormat(kind) ==
    CASE kind = "Console" -> "plain-console"
      [] kind = "Txt" -> "delimited-text"
      [] kind = "Md" -> "structured-markup"

\* The texts delivered, printed or written.
DeliveredTexts ==
    {PrintedReports[i][2] : i \in 1..Len(PrintedReports)}
    \cup {f.text : f \in written}

C15_NoRetry ==
    \A i, j \in 1..Len(content_requests) :
        content_requests[i] = content_requests[j] => i = j

\* The run ended after a content request failed, and the log holds that
\* request once.
C15_Witness ==
    /\ pc = "done"
    /\ \E r \in failed_requests :
          /\ r.kind = "content"
          /\ Cardinality({i \in 1..Len(content_requests) :
                             content_requests[i] = r}) = 1

\* -------------------------------------------------------------------- C16

\* The repositories the loop has decided on: those before the current one, and
\* the current one once its listing has been asked for.
ReposReached ==
    CASE pc = "enumerate" -> 0
      [] pc = "loop" -> idx - 1
      [] pc \in {"listing", "join"} -> idx
      [] pc = "done" -> Len(project_repos)
      [] pc = "failed" -> IF idx <= Len(project_repos) THEN idx
                          ELSE Len(project_repos)

\* One listing query with the suffix filter ".csproj" for each repository among
\* the first n that the prefix does not skip, in enumeration order.
ListingsDue(n) ==
    MapSeq(SelectSeq(SubSeq(project_repos, 1, n),
                     LAMBDA slug : ~SkippedByPrefix(slug)),
           LAMBDA slug : [kind |-> "list", slug |-> slug, arg |-> ".csproj"])

C16_Listings == list_requests = ListingsDue(ReposReached)

C16_FetchesListedPaths ==
    content_requests' # content_requests =>
        /\ IsPrefixOf(content_requests, content_requests')
        /\ \A k \in (Len(content_requests) + 1)..Len(content_requests') :
              /\ content_requests'[k].kind = "content"
              /\ content_requests'[k].slug = project_repos[idx]
              /\ content_requests'[k].arg \in Range(csproj_files)
              /\ list_requests[Len(list_requests)].slug = project_repos[idx]

\* C16: the log of listing queries is, at every moment, one query with the
\* filter ".csproj" per repository reached so far that the prefix does not skip
\* (all of them without a prefix), in enumeration order, and it stops growing
\* at a fatal failure; every content request is for a path that the listing of
\* its repository returned.
C16_ListedOnceInOrder == []C16_Listings /\ [][C16_FetchesListedPaths]_vars

\* A run over a, ignore-x and b with the prefix ignore- ended: a and b were
\* listed, ignore-x was not, and a file was fetched.
C16_Witness ==
    /\ pc = "done"
    /\ ignore_repo_prefix = Some(Str_ignore_)
    /\ project_repos = ProjectRepos
    /\ Len(list_requests) = 2
    /\ list_requests[1].slug = Str_a
    /\ list_requests[2].slug = Str_b
    /\ content_requests # <<>>

\* -------------------------------------------------------------------- C17

\* The repositories announced as ignored, in the order of the announcements.
IgnoredRepos ==
    MapSeq(SelectSeq(stdout, LAMBDA entry : entry[1] = "Ignored repo"),
           LAMBDA entry : entry[2])

\* C17: with the empty string as the ignore prefix every repository is
\* skipped: no listing and no content request is ever issued, the report stays
\* empty, the repositories passed are all announced as ignored, and a run that
\* delivers its report delivers one of zero records.
C17_EmptyPrefixSkipsAll ==
    ignore_repo_prefix = Some(<<>>) =>
        /\ list_requests = <<>>
        /\ content_requests = <<>>
        /\ in_flight = {}
        /\ report = <<>>
        /\ pc \notin {"listing", "join"}
        /\ pc = "loop" => IgnoredRepos = SubSeq(project_repos, 1, idx - 1)
        /\ pc = "done" =>
              /\ IgnoredRepos = project_repos
              /\ \A text \in DeliveredTexts : text.rows = <<>>
              /\ DeliveredTexts # {}

\* A run with the empty prefix over three repositories, on a server free to
\* return files, ended with its report delivered.
C17_Witness ==
    /\ ignore_repo_prefix = Some(<<>>)
    /\ server = "any"
    /\ pc = "done"
    /\ Len(project_repos) = 3
    /\ Len(IgnoredRepos) = 3
    /\ ReportDelivered

\* -------------------------------------------------------------------- C18

\* The run has ended: the report was delivered, or main returned an error.
Terminated == pc \in {"done", "failed"}

\* C18: when every request issued is answered, every run ends, with the report
\* delivered or with a fatal error; no pattern of failed fetches leaves the run
\* waiting at the join barrier.
C18_Terminates == <>Terminated

\* A run in which both fetches of a repository failed ended with its report
\* delivered.
C18_Witness ==
    /\ pc = "done"
    /\ ReportDelivered
    /\ Len(content_requests) = 2
    /\ failed_requests = Range(content_requests)

====
